---- MODULE Spec2Model ----
(***************************************************************************)
(* Order lifecycle and payment reconciliation of the mitrani-be backend.   *)
(*                                                                         *)
(* The store (products, orders with their single order item, transactions) *)
(* is shared by request handlers.  A handler that awaits the store more    *)
(* than once is modelled as a process in a request slot: every await is a  *)
(* separate step, so handlers interleave at the awaits as they do under    *)
(* the Node.js event loop and across server instances.                     *)
(*                                                                         *)
(* services/orderservice.js is not part of the available sources; the      *)
(* order operations are modelled from the documented business rules.       *)
(***************************************************************************)
EXTENDS Integers, Sequences, FiniteSets, TLC

(* ---------------------------- bounds ----------------------------------- *)
MaxOrders == 2          \* orders that may be created
MaxTx == 2              \* transaction rows that may be inserted
MaxTime == 2            \* last value of the clock
MaxQty == 2             \* largest quantity a farmer sets / initial stock
MaxStock == 3           \* releases stop once the stock would exceed this
MaxOtps == 2            \* OTP records that may be stored for the phone
MaxTried == 5           \* comparisons of a wrong code that are counted per OTP record
MaxLoginTime == 3       \* last value of the clock while admin logins are observed

(* ---------------------------- values ----------------------------------- *)
NoTime == 0             \* a NULL timestamp column
CommissionRatePct == 5  \* this.commissionRate = 0.05
OtpMaxAttempts == 3     \* currentAttempts >= 3
OtpLifetime == 1        \* clock ticks an OTP is valid (5 minutes)
MaxAttempts == 5        \* this.maxAttempts = 5
LockoutDuration == 1    \* this.lockoutDuration: clock ticks of 15 minutes

Products == {"p1"}
Farmers == {"f1", "f2"}
Retailers == {"r1"}
Admins == {"a1"}
Users == Farmers \cup Retailers \cup Admins
Role(u) == IF u \in Farmers THEN "farmer" ELSE IF u \in Retailers THEN "retailer" ELSE "admin"
ProductOwner(p) == "f1"

Gateways == {"midtrans", "xendit", "stripe"}
GatewayTxIds == {"g1", "g2"}
NULL == "null"
Prices == {20, 30}
ProductStatuses == {"available", "ordered", "sold"}
OrderStatuses == {"pending", "confirmed", "delivered", "completed", "cancelled"}
PaymentStatuses == {"pending", "paid", "failed"}
Slots == {"s1", "s2"}

\* provider status vocabularies that a webhook may carry
ProviderStatuses(gw) ==
  IF gw = "midtrans" THEN {"settlement", "expire", "pending"}
  ELSE IF gw = "xendit" THEN {"PAID", "FAILED", "PENDING"}
  ELSE {"checkout.session.completed", "checkout.session.expired", "charge.updated"}

VARIABLES products, orders, transactions, now, req, deleted, otp, loginAttempts, inactive
vars == <<products, orders, transactions, now, req, deleted, otp, loginAttempts, inactive>>

(* ------------------------- payment service ----------------------------- *)
IsSuccess(gw, st) ==
  IF gw = "midtrans" THEN st \in {"capture", "settlement"}
  ELSE IF gw = "xendit" THEN st = "PAID"
  ELSE st = "checkout.session.completed"

IsFailed(gw, st) ==
  IF gw = "midtrans" THEN st \in {"deny", "cancel", "expire", "failure"}
  ELSE IF gw = "xendit" THEN st \in {"EXPIRED", "FAILED"}
  ELSE st = "checkout.session.expired"

\* the canonical event of a payload: is_success, is_failed or neither
ParseEvent(gw, st) ==
  IF IsSuccess(gw, st) THEN "success" ELSE IF IsFailed(gw, st) THEN "failed" ELSE "other"

(* ----------------------- transaction service --------------------------- *)
\* a commission of ten per cent
CommissionOfTen(amount) == (amount * 10) \div 100

Commission(amount) == (amount * CommissionRatePct) \div 100

NewTransaction(o, amount, gw) ==
  [order_id |-> o, amount |-> amount, commission |-> Commission(amount),
   payment_gateway |-> gw, payment_status |-> "pending",
   gateway_transaction_id |-> NULL, paid_at |-> NoTime]

\* rows returned by .eq('order_id', orderId)
TxOfOrder(txs, o) == {t \in DOMAIN txs : txs[t].order_id = o}

\* first statement of markTransactionAsPaid: UPDATE transactions ... WHERE id = t
TxMarkPaid(txs, t, g, tm) ==
  [txs EXCEPT ![t].payment_status = "paid",
              ![t].gateway_transaction_id = g,
              ![t].paid_at = tm]

\* a variant that moves the order one step along its lifecycle
OrdConfirmAdvance(ords, o, tm) ==
  [ords EXCEPT ![o].status = IF @ = "pending" THEN "confirmed"
                             ELSE IF @ = "confirmed" THEN "delivered" ELSE @,
               ![o].confirmed_at = tm]

\* second statement of markTransactionAsPaid: UPDATE orders ... WHERE id = o
OrdConfirm(ords, o, tm) ==
  [ords EXCEPT ![o].status = "confirmed", ![o].confirmed_at = tm]

\* first statement of markTransactionAsFailed
TxMarkFailed(txs, t) == [txs EXCEPT ![t].payment_status = "failed"]

\* second statement of markTransactionAsFailed (cancelOrder)
OrdCancel(ords, o) == [ords EXCEPT ![o].status = "cancelled"]

(* --------------------------- request slots ----------------------------- *)
\* pc is the await the handler is suspended at; the other fields are its locals;
\* chg records which columns the handler's own writes have changed so far
IdleReq ==
  [pc |-> "idle", op |-> "none", order |-> 0, tx |-> 0, ev |-> "none",
   gtid |-> NULL, gateway |-> "none", seen |-> "none", amount |-> 0,
   resp |-> 0, chg |-> {},
   actor |-> "none", product |-> "none", qty |-> 0, preq |-> 0, prest |-> "none",
   norders |-> 0, otpid |-> 0, att |-> 0]

\* res.status(code).json(...): the handler ends
Respond(r, code) ==
  [IdleReq EXCEPT !.pc = "done", !.op = r.op, !.tx = r.tx, !.ev = r.ev,
                  !.seen = r.seen, !.chg = r.chg, !.resp = code,
                  !.actor = r.actor, !.product = r.product, !.qty = r.qty,
                  !.preq = r.preq, !.prest = r.prest, !.norders = r.norders,
                  !.otpid = r.otpid, !.att = r.att]

\* a free slot takes the next request; the slots are interchangeable, so the
\* second one is used only while the first is busy
CanStart(s) ==
  /\ req[s].pc = "idle"
  /\ s = "s2" => req["s1"].pc # "idle"

\* the slot takes the handler's next position
Commit(s, r) == req' = [req EXCEPT ![s] = r]

\* names of the transaction columns in which two versions of a row differ
TxDiff(a, b) ==
  {f \in {"payment_status", "gateway_transaction_id", "paid_at", "payment_gateway"} :
     a[f] # b[f]}

\* names of the order columns in which two versions of a row differ
OrdDiff(a, b) ==
  (IF a.status # b.status THEN {"order_status"} ELSE {}) \cup
  (IF a.confirmed_at # b.confirmed_at THEN {"confirmed_at"} ELSE {})

\* no row has been removed by a DELETE
NoneDeleted ==
  [users |-> {}, products |-> {}, orders |-> {}, items |-> {}, transactions |-> {}]

\* this.loginAttempts has no entry for the client IP
NoAttempts == [count |-> 0, lastAttempt |-> 0]

\* the row that storeOTP inserts for the phone: attempts defaults to 0; tried
\* counts the comparisons of this record's code with a wrong code
NewOtp(id, tm) ==
  [id |-> id, attempts |-> 0, is_used |-> FALSE, expires_at |-> tm + OtpLifetime, tried |-> 0]

TypeOK ==
  /\ now \in 1..(IF MaxLoginTime > MaxTime THEN MaxLoginTime ELSE MaxTime)
  /\ inactive \subseteq Users
  /\ loginAttempts.count \in Nat
  /\ Len(orders) <= MaxOrders
  /\ Len(transactions) <= MaxTx
  /\ \A s \in Slots : req[s].resp \in {0, 200, 201, 400, 401, 403, 404, 429, 500}
  /\ \A s \in Slots : req[s].pc \in {"idle", "done", "pay_get", "pay_create", "pay_update",
                                      "mp_tx", "mp_order", "mf_tx", "mf_order", "adm_pending",
                                      "ord_reserve", "ord_insert", "otp_inc", "otp_use",
                                      "login_lookup", "login_compare"}
  /\ otp.attempts \in Nat /\ otp.tried \in 0..MaxTried /\ otp.id \in 1..MaxOtps

Init ==
  /\ products = [p \in Products |->
                   [farmer_id |-> ProductOwner(p), quantity |-> MaxQty,
                    price |-> 20, status |-> "available"]]
  /\ orders = << >>
  /\ transactions = << >>
  /\ now = 1
  /\ req = [s \in Slots |-> IdleReq]
  /\ deleted = NoneDeleted
  /\ otp = NewOtp(1, 1)
  /\ loginAttempts = NoAttempts
  /\ inactive = {}

Tick ==
  /\ now < MaxTime
  /\ now' = now + 1
  /\ UNCHANGED <<products, orders, transactions, req, deleted, otp, loginAttempts, inactive>>

\* the response has been sent; the slot is free for the next request
Ack(s) ==
  /\ req[s].pc = "done"
  /\ req' = [req EXCEPT ![s] = IdleReq]
  /\ UNCHANGED <<products, orders, transactions, now, deleted, otp, loginAttempts, inactive>>

\* rows that are still in their tables
LiveUsers == Users \ deleted.users

\* a lookup of the token's user that does not look at is_active
UsersWithRow == LiveUsers

\* authenticateToken: the users row of the token's userId with is_active = true
ActiveUsers == LiveUsers \ inactive

LiveProducts == Products \ deleted.products
LiveOrders == DOMAIN orders \ deleted.orders
LiveTransactions == DOMAIN transactions \ deleted.transactions

(* ---------------- POST /api/orders/:id/pay (routes/payments) ------------ *)
PayGateways == {"midtrans", "xendit"}

\* validation, authorization and order checks after getOrderById
PayStart(s, actor, o, gw) ==
  /\ CanStart(s)
  /\ LET r == [IdleReq EXCEPT !.op = "pay", !.order = o, !.gateway = gw] IN
     Commit(s,
       IF actor \notin ActiveUsers THEN Respond(r, 401)
       ELSE IF gw \notin Gateways THEN Respond(r, 400)
       ELSE IF o \notin LiveOrders THEN Respond(r, 500)
       ELSE IF Role(actor) # "admin" /\ orders[o].retailer_id # actor THEN Respond(r, 403)
       ELSE IF orders[o].status # "pending" THEN Respond(r, 400)
       ELSE [r EXCEPT !.pc = "pay_get", !.amount = orders[o].total_amount])
  /\ UNCHANGED <<products, orders, transactions, now, deleted, otp, loginAttempts, inactive>>

\* getTransactionByOrderId: .single() fails unless exactly one row matches
PayGetTx(s) ==
  /\ req[s].pc = "pay_get"
  /\ LET rows == TxOfOrder(transactions, req[s].order) \cap LiveTransactions IN
     Commit(s,
       IF Cardinality(rows) = 1
       THEN LET t == CHOOSE x \in rows : TRUE IN
            IF transactions[t].payment_status = "paid"
            THEN Respond(req[s], 400)
            ELSE [req[s] EXCEPT !.pc = "pay_update", !.tx = t,
                                !.seen = transactions[t].payment_status,
                                !.amount = transactions[t].amount]
       ELSE [req[s] EXCEPT !.pc = "pay_create"])
  /\ UNCHANGED <<products, orders, transactions, now, deleted, otp, loginAttempts, inactive>>

\* createTransaction: INSERT INTO transactions (no uniqueness on order_id;
\* the foreign key refuses a row for an order that is gone)
PayCreate(s) ==
  /\ req[s].pc = "pay_create"
  /\ Len(transactions) < MaxTx
  /\ IF req[s].order \in LiveOrders
     THEN /\ transactions' = Append(transactions,
                                    NewTransaction(req[s].order, req[s].amount, req[s].gateway))
          /\ Commit(s, [req[s] EXCEPT !.pc = "pay_update", !.tx = Len(transactions) + 1,
                                      !.seen = "created"])
     ELSE /\ Commit(s, Respond(req[s], 500))
          /\ UNCHANGED transactions
  /\ UNCHANGED <<products, orders, now, deleted, otp, loginAttempts, inactive>>

\* updateTransaction: UPDATE transactions SET ... WHERE id = t
TxSetGateway(txs, t, gw, g) ==
  [txs EXCEPT ![t].payment_gateway = gw, ![t].gateway_transaction_id = g]

\* paymentService.createPayment (may fail upstream), then updateTransaction
PayUpdate(s) ==
  /\ req[s].pc = "pay_update"
  /\ \/ /\ Commit(s, Respond(req[s], 500))
        /\ UNCHANGED transactions
     \/ \E g \in GatewayTxIds :
          IF req[s].tx \in LiveTransactions
          THEN /\ transactions' = TxSetGateway(transactions, req[s].tx, req[s].gateway, g)
               /\ Commit(s, Respond(req[s], 200))
          ELSE /\ Commit(s, Respond(req[s], 500))
               /\ UNCHANGED transactions
  /\ UNCHANGED <<products, orders, now, deleted, otp, loginAttempts, inactive>>

(* ---------------- POST /api/payments/webhook (routes/payments) ---------- *)
\* a verification that accepts every signature
VerifyAcceptAll(gw, sig) == TRUE

\* verifyWebhookSignature: the digest computed for the gateway equals the header
VerifyWebhookSignature(gw, sig) == gw \in Gateways /\ sig = "valid"

\* signature header check, verification, parsing and getTransactionById
\* amounts a webhook payload may carry
WebhookAmounts == {20, 30}

\* parseWebhookPayload: the canonical event of a provider payload
ParseWebhookPayload(gw, tid, gid, st, amt) ==
  [transaction_id |-> tid, gateway_transaction_id |-> gid, amount |-> amt,
   ev |-> ParseEvent(gw, st)]

WebhookReceive(s, gw, sig, tid, gid, st, amt) ==
  /\ CanStart(s)
  /\ LET webhookData == ParseWebhookPayload(gw, tid, gid, st, amt)
         r0 == [IdleReq EXCEPT !.op = "webhook"]
         r == [r0 EXCEPT !.tx = webhookData.transaction_id,
                 !.ev = webhookData.ev] IN
     Commit(s,
       IF sig = "missing" THEN Respond(r0, 400)
       ELSE IF ~VerifyWebhookSignature(gw, sig) THEN Respond(r0, 401)
       ELSE IF webhookData.transaction_id = 0 THEN Respond(r0, 400)
       ELSE IF webhookData.transaction_id \notin DOMAIN transactions THEN Respond(r, 500)
       ELSE LET r2 == [r EXCEPT !.seen = transactions[webhookData.transaction_id].payment_status] IN
            IF r.ev = "success"
            THEN [r2 EXCEPT !.pc = "mp_tx", !.gtid = webhookData.gateway_transaction_id]
            ELSE IF r.ev = "failed" THEN [r2 EXCEPT !.pc = "mf_tx"]
            ELSE Respond(r2, 200))
  /\ UNCHANGED <<products, orders, transactions, now, deleted, otp, loginAttempts, inactive>>

(* -------- PATCH /api/transactions/:id/status (routes/transactions) ------ *)
AdminPatchStatus(s, actor, tid, ps, gid) ==
  /\ CanStart(s)
  /\ LET r == [IdleReq EXCEPT !.op = "admin", !.tx = tid] IN
     Commit(s,
       IF Role(actor) # "admin" THEN Respond(r, 403)
       ELSE IF ps \notin PaymentStatuses THEN Respond(r, 400)
       ELSE IF ps = "paid" THEN
              IF gid = NULL THEN Respond(r, 400)
              ELSE [r EXCEPT !.pc = "mp_tx", !.ev = "success", !.gtid = gid]
       ELSE IF ps = "failed" THEN [r EXCEPT !.pc = "mf_tx", !.ev = "failed"]
       ELSE [r EXCEPT !.pc = "adm_pending"])
  /\ UNCHANGED <<products, orders, transactions, now, deleted, otp, loginAttempts, inactive>>

\* updateTransaction(id, {payment_status: 'pending', paid_at: null})
TxSetPending(txs, t) ==
  [txs EXCEPT ![t].payment_status = "pending", ![t].paid_at = NoTime]

AdminSetPending(s) ==
  /\ req[s].pc = "adm_pending"
  /\ IF req[s].tx \notin DOMAIN transactions
     THEN /\ Commit(s, Respond(req[s], 500))
          /\ UNCHANGED transactions
     ELSE /\ transactions' = TxSetPending(transactions, req[s].tx)
          /\ Commit(s, Respond(req[s], 200))
  /\ UNCHANGED <<products, orders, now, deleted, otp, loginAttempts, inactive>>

(* ------------- transactionService.markTransactionAsPaid ----------------- *)
MarkPaidTx(s) ==
  /\ req[s].pc = "mp_tx"
  /\ LET t == req[s].tx IN
     IF t \notin DOMAIN transactions
     THEN /\ Commit(s, Respond(req[s], 500))
          /\ UNCHANGED transactions
     ELSE LET txs == TxMarkPaid(transactions, t, req[s].gtid, now) IN
          /\ transactions' = txs
          /\ Commit(s, [req[s] EXCEPT !.pc = "mp_order",
                                      !.chg = @ \cup TxDiff(transactions[t], txs[t])])
  /\ UNCHANGED <<products, orders, now, deleted, otp, loginAttempts, inactive>>

MarkPaidOrder(s) ==
  /\ req[s].pc = "mp_order"
  /\ LET o == transactions[req[s].tx].order_id
         ords == OrdConfirm(orders, o, now) IN
     /\ orders' = ords
     /\ Commit(s, Respond([req[s] EXCEPT !.chg = @ \cup OrdDiff(orders[o], ords[o])], 200))
  /\ UNCHANGED <<products, transactions, now, deleted, otp, loginAttempts, inactive>>

(* ------------ transactionService.markTransactionAsFailed ---------------- *)
MarkFailedTx(s) ==
  /\ req[s].pc = "mf_tx"
  /\ LET t == req[s].tx IN
     IF t \notin DOMAIN transactions
     THEN /\ Commit(s, Respond(req[s], 500))
          /\ UNCHANGED transactions
     ELSE LET txs == TxMarkFailed(transactions, t) IN
          /\ transactions' = txs
          /\ Commit(s, [req[s] EXCEPT !.pc = "mf_order",
                                      !.chg = @ \cup TxDiff(transactions[t], txs[t])])
  /\ UNCHANGED <<products, orders, now, deleted, otp, loginAttempts, inactive>>

\* both callers pass cancelOrder = true
MarkFailedOrder(s) ==
  /\ req[s].pc = "mf_order"
  /\ LET o == transactions[req[s].tx].order_id
         ords == OrdCancel(orders, o) IN
     /\ orders' = ords
     /\ Commit(s, Respond([req[s] EXCEPT !.chg = @ \cup OrdDiff(orders[o], ords[o])], 200))
  /\ UNCHANGED <<products, transactions, now, deleted, otp, loginAttempts, inactive>>

(* ------------------- stock ledger (order service) ----------------------- *)
\* a reservation that forgets the product's status
ReserveKeepStatus(prods, p, q) == [prods EXCEPT ![p].quantity = @ - q]

Reserve(prods, p, q) ==
  [prods EXCEPT ![p].quantity = @ - q,
                ![p].status = IF prods[p].quantity - q = 0 THEN "ordered" ELSE @]

ConfirmStock(prods, p) ==
  [prods EXCEPT ![p].status = IF prods[p].quantity = 0 THEN "sold" ELSE @]

Release(prods, p, q) ==
  [prods EXCEPT ![p].quantity = @ + q, ![p].status = "available"]

(* --------------------- POST /api/orders (createOrder) ------------------- *)
NewOrder(actor, p, q, price) ==
  [retailer_id |-> actor, product_id |-> p, quantity |-> q, unit_price |-> price,
   total_price |-> q * price, total_amount |-> q * price,
   status |-> "pending", confirmed_at |-> NoTime, updated |-> FALSE]

CreateOrder(actor, p, q) ==
  /\ actor \in ActiveUsers /\ p \in LiveProducts
  /\ Role(actor) \in {"retailer", "admin"}
  /\ Len(orders) < MaxOrders
  /\ products[p].status = "available"
  /\ q <= products[p].quantity
  /\ products' = Reserve(products, p, q)
  /\ orders' = Append(orders, NewOrder(actor, p, q, products[p].price))
  /\ UNCHANGED <<transactions, now, req, deleted, otp, loginAttempts, inactive>>

(* ------------- createOrder as a request with its store accesses --------- *)
\* the reservation ignores the stock it finds (a read-then-write decrement)
ReserveUnchecked(prods, p, q) == TRUE

\* rows matched by UPDATE products SET quantity = quantity - q WHERE quantity >= q
CanReserve(prods, p, q) == prods[p].quantity >= q

\* slots that hold a createOrder between its start and its response
OrdersInFlight == {s \in Slots : req[s].pc \in {"ord_reserve", "ord_insert"}}

\* role check of the route, validateOrderCreation and the availability check
OrderStart(s, actor, p, q) ==
  /\ CanStart(s)
  /\ Len(orders) + Cardinality(OrdersInFlight) < MaxOrders
  /\ LET r == [IdleReq EXCEPT !.op = "order", !.actor = actor, !.product = p, !.qty = q,
                              !.preq = products[p].quantity, !.prest = products[p].status,
                              !.norders = Len(orders), !.amount = products[p].price] IN
     Commit(s,
       IF Role(actor) \notin {"retailer", "admin"} THEN Respond(r, 403)
       ELSE IF q < 1 THEN Respond(r, 400)
       ELSE IF products[p].status # "available" \/ q > products[p].quantity THEN Respond(r, 400)
       ELSE [r EXCEPT !.pc = "ord_reserve"])
  /\ UNCHANGED <<products, orders, transactions, now, deleted, otp, loginAttempts, inactive>>

\* Stock Ledger reserve: one conditional update of the product row
OrderReserve(s) ==
  /\ req[s].pc = "ord_reserve"
  /\ LET p == req[s].product
         q == req[s].qty IN
     IF products[p].status = "available" /\ CanReserve(products, p, q)
     THEN /\ products' = Reserve(products, p, q)
          /\ Commit(s, [req[s] EXCEPT !.pc = "ord_insert"])
     ELSE /\ Commit(s, Respond(req[s], 400))
          /\ UNCHANGED products
  /\ UNCHANGED <<orders, transactions, now, deleted, otp, loginAttempts, inactive>>

\* the order and its item are persisted; when the store refuses them the
\* reservation is released again before the error is reported
OrderInsert(s) ==
  /\ req[s].pc = "ord_insert"
  /\ LET p == req[s].product
         q == req[s].qty IN
     \/ /\ orders' = Append(orders, NewOrder(req[s].actor, p, q, req[s].amount))
        /\ Commit(s, Respond(req[s], 201))
        /\ UNCHANGED products
     \/ /\ products' = Release(products, p, q)
        /\ Commit(s, Respond(req[s], 400))
        /\ UNCHANGED orders
  /\ UNCHANGED <<transactions, now, deleted, otp, loginAttempts, inactive>>

(* -------------- PATCH /api/orders/:id/status (updateOrderStatus) -------- *)
\* the transition table: is actor allowed to move order ord to status st
\* a transition table that lets every farmer act on every order
CanTransitionAnyFarmer(ord, st, actor) ==
  LET isAdmin == Role(actor) = "admin"
      isFarmer == Role(actor) = "farmer"
      isOwner == Role(actor) = "retailer" /\ ord.retailer_id = actor IN
  \/ ord.status = "pending" /\ st = "confirmed" /\ (isFarmer \/ isAdmin)
  \/ ord.status = "confirmed" /\ st = "delivered" /\ (isFarmer \/ isAdmin)
  \/ ord.status = "delivered" /\ st = "completed" /\ (isOwner \/ isAdmin)
  \/ ord.status = "pending" /\ st = "cancelled" /\ (isOwner \/ isAdmin)
  \/ ord.status = "confirmed" /\ st = "cancelled" /\ isAdmin

CanTransition(ord, st, actor) ==
  LET isAdmin == Role(actor) = "admin"
      isFarmer == Role(actor) = "farmer" /\ products[ord.product_id].farmer_id = actor
      isOwner == Role(actor) = "retailer" /\ ord.retailer_id = actor IN
  \/ ord.status = "pending" /\ st = "confirmed" /\ (isFarmer \/ isAdmin)
  \/ ord.status = "confirmed" /\ st = "delivered" /\ (isFarmer \/ isAdmin)
  \/ ord.status = "delivered" /\ st = "completed" /\ (isOwner \/ isAdmin)
  \/ ord.status = "pending" /\ st = "cancelled" /\ (isOwner \/ isAdmin)
  \/ ord.status = "confirmed" /\ st = "cancelled" /\ isAdmin

UpdateOrderStatus(actor, o, st) ==
  /\ o \in DOMAIN orders
  /\ CanTransition(orders[o], st, actor)
  /\ st = "cancelled" => products[orders[o].product_id].quantity + orders[o].quantity <= MaxStock
  /\ orders' = [orders EXCEPT ![o].status = st,
                              ![o].confirmed_at = IF st = "confirmed" THEN now ELSE @]
  /\ products' = IF st = "confirmed" THEN ConfirmStock(products, orders[o].product_id)
                 ELSE IF st = "cancelled"
                      THEN Release(products, orders[o].product_id, orders[o].quantity)
                      ELSE products
  /\ UNCHANGED <<transactions, now, req, deleted, otp, loginAttempts, inactive>>

(* --------------- PATCH /api/orders/:id (updateOrderQuantity) ------------ *)
\* an update of the item's quantity that leaves the order's total as it was
SetItemQuantityOnly(ords, o, nq) ==
  [ords EXCEPT ![o].quantity = nq, ![o].total_price = nq * ords[o].unit_price,
               ![o].updated = TRUE]

\* the item's quantity with the recomputed total_price and total_amount
SetItemQuantity(ords, o, nq) ==
  [ords EXCEPT ![o].quantity = nq, ![o].total_price = nq * ords[o].unit_price,
               ![o].total_amount = nq * ords[o].unit_price, ![o].updated = TRUE]

\* pending orders only, by the owning retailer or an admin; the reservation
\* is adjusted by the difference (a further reserve or a partial release)
UpdateOrderQuantity(actor, o, nq) ==
  /\ o \in DOMAIN orders
  /\ nq >= 1
  /\ orders[o].status = "pending"
  /\ Role(actor) = "admin" \/ (Role(actor) = "retailer" /\ orders[o].retailer_id = actor)
  /\ LET p == orders[o].product_id
         delta == nq - orders[o].quantity IN
     /\ delta <= products[p].quantity
     /\ products[p].quantity - delta <= MaxStock
     /\ products' = IF delta > 0 THEN Reserve(products, p, delta)
                    ELSE IF delta < 0 THEN Release(products, p, 0 - delta)
                    ELSE products
  /\ orders' = SetItemQuantity(orders, o, nq)
  /\ UNCHANGED <<transactions, now, req, deleted, otp, loginAttempts, inactive>>

(* ------------------ PUT /api/products/:id (updateProduct) --------------- *)
\* validateProductUpdate admits quantity >= 0, price > 0 and a known status
UpdateProduct(actor, p, q, price, st) ==
  /\ Role(actor) \in {"farmer", "admin"}
  /\ products[p].farmer_id = actor
  /\ q >= 0
  /\ products' = [products EXCEPT ![p].quantity = q, ![p].price = price, ![p].status = st]
  /\ UNCHANGED <<orders, transactions, now, req, deleted, otp, loginAttempts, inactive>>

(* ---------------- PATCH /api/products/:id/stock (updateStock) ----------- *)
\* the result of the query('quantity') validator is never inspected
StockInputs == {-1} \cup 0..MaxQty

SetQuantity(prods, p, q) == [prods EXCEPT ![p].quantity = q]

UpdateStock(actor, p, q) ==
  /\ Role(actor) \in {"farmer", "admin"}
  /\ products[p].farmer_id = actor
  /\ products' = SetQuantity(products, p, q)
  /\ UNCHANGED <<orders, transactions, now, req, deleted, otp, loginAttempts, inactive>>

(* ------------------ whatsappOtpService (one phone, one purpose) --------- *)
\* storeOTP: the phone's unused records are deleted and a new one is inserted
StoreOTP ==
  /\ otp.id < MaxOtps
  /\ otp' = NewOtp(otp.id + 1, now)
  /\ UNCHANGED <<products, orders, transactions, now, req, deleted, loginAttempts, inactive>>

\* verifyOTP steps 1 to 4: the latest unused record is read, then expiry,
\* the attempts limit and the code are checked on the record as read
VerifyStart(s, code) ==
  /\ CanStart(s)
  /\ LET r == [IdleReq EXCEPT !.op = "verify", !.ev = code, !.otpid = otp.id,
                              !.att = otp.attempts]
         wrong == ~otp.is_used /\ otp.expires_at > now /\ otp.attempts < OtpMaxAttempts
                    /\ code # "right" IN
     /\ wrong => otp.tried < MaxTried
     /\ Commit(s,
          IF otp.is_used THEN Respond(r, 400)
          ELSE IF otp.expires_at <= now THEN Respond(r, 400)
          ELSE IF otp.attempts >= OtpMaxAttempts THEN Respond(r, 400)
          ELSE IF code # "right" THEN [r EXCEPT !.pc = "otp_inc"]
          ELSE [r EXCEPT !.pc = "otp_use"])
     /\ otp' = IF wrong THEN [otp EXCEPT !.tried = @ + 1] ELSE otp
  /\ UNCHANGED <<products, orders, transactions, now, deleted, loginAttempts, inactive>>

\* UPDATE otp_verifications SET attempts = currentAttempts + 1 WHERE id = ...
OtpIncrement(s) ==
  /\ req[s].pc = "otp_inc"
  /\ otp' = IF otp.id = req[s].otpid THEN [otp EXCEPT !.attempts = req[s].att + 1] ELSE otp
  /\ Commit(s, Respond(req[s], 400))
  /\ UNCHANGED <<products, orders, transactions, now, deleted, loginAttempts, inactive>>

\* UPDATE otp_verifications SET is_used = true WHERE id = ...
OtpMarkUsed(s) ==
  /\ req[s].pc = "otp_use"
  /\ otp' = IF otp.id = req[s].otpid THEN [otp EXCEPT !.is_used = TRUE] ELSE otp
  /\ Commit(s, Respond(req[s], 200))
  /\ UNCHANGED <<products, orders, transactions, now, deleted, loginAttempts, inactive>>

(* ------------- POST /api/admin/login (services/adminAuthService) ------- *)
\* the credentials a login request may carry
LoginCredentials == {"right", "unknown_email", "wrong_password"}

\* checkRateLimit throws: the entry is not older than the lockout and its
\* count has reached maxAttempts
RateLimited(a, tm) ==
  /\ a.count > 0
  /\ ~(tm - a.lastAttempt > LockoutDuration)
  /\ a.count >= MaxAttempts

\* checkRateLimit deletes an entry that is older than the lockout
AfterRateCheck(a, tm) ==
  IF a.count > 0 /\ tm - a.lastAttempt > LockoutDuration THEN NoAttempts ELSE a

\* recordFailedAttempt
RecordFailedAttempt(a, tm) == [count |-> a.count + 1, lastAttempt |-> tm]

\* the clock while admin logins are observed
LoginTick ==
  /\ now < MaxLoginTime
  /\ now' = now + 1
  /\ UNCHANGED <<products, orders, transactions, req, deleted, otp, loginAttempts, inactive>>

\* adminLogin up to its first await: checkRateLimit runs synchronously
LoginStart(s, cred) ==
  /\ CanStart(s)
  /\ LET r == [IdleReq EXCEPT !.op = "login", !.ev = cred] IN
     IF RateLimited(loginAttempts, now)
     THEN /\ Commit(s, Respond(r, 429))
          /\ UNCHANGED loginAttempts
     ELSE /\ Commit(s, [r EXCEPT !.pc = "login_lookup"])
          /\ loginAttempts' = AfterRateCheck(loginAttempts, now)
  /\ UNCHANGED <<products, orders, transactions, now, deleted, otp, inactive>>

\* the store has answered the lookup of an active admin with this email
LoginLookup(s) ==
  /\ req[s].pc = "login_lookup"
  /\ IF req[s].ev = "unknown_email" \/ Admins \subseteq (deleted.users \cup inactive)
     THEN /\ loginAttempts' = RecordFailedAttempt(loginAttempts, now)
          /\ Commit(s, Respond(req[s], 403))
     ELSE /\ Commit(s, [req[s] EXCEPT !.pc = "login_compare"])
          /\ UNCHANGED loginAttempts
  /\ UNCHANGED <<products, orders, transactions, now, deleted, otp, inactive>>

\* bcrypt.compare has answered: recordFailedAttempt or clearFailedAttempts
LoginCompare(s) ==
  /\ req[s].pc = "login_compare"
  /\ IF req[s].ev = "wrong_password"
     THEN /\ loginAttempts' = RecordFailedAttempt(loginAttempts, now)
          /\ Commit(s, Respond(req[s], 403))
     ELSE /\ loginAttempts' = NoAttempts
          /\ Commit(s, Respond(req[s], 200))
  /\ UNCHANGED <<products, orders, transactions, now, deleted, otp, inactive>>

(* ------------- DELETE /api/admin/users/:id (adminService.deleteUser) ---- *)
\* DELETE FROM users WHERE id = u, with the ON DELETE CASCADE foreign keys
\* products.farmer_id, orders.retailer_id, order_items.order_id,
\* order_items.product_id and transactions.order_id
CascadeDelete(d, u) ==
  LET ps == {p \in Products : products[p].farmer_id = u}
      os == {o \in DOMAIN orders : orders[o].retailer_id = u}
      is == {o \in DOMAIN orders : o \in os \/ orders[o].product_id \in ps}
      ts == {t \in DOMAIN transactions : transactions[t].order_id \in os} IN
  [users |-> d.users \cup {u}, products |-> d.products \cup ps,
   orders |-> d.orders \cup os, items |-> d.items \cup is,
   transactions |-> d.transactions \cup ts]

\* authenticateToken and requireAdmin, then deleteUser
DeleteUser(actor, u) ==
  /\ actor \in ActiveUsers /\ Role(actor) = "admin"
  /\ u \in LiveUsers
  /\ deleted' = CascadeDelete(deleted, u)
  /\ UNCHANGED <<products, orders, transactions, now, req, otp, loginAttempts, inactive>>

\* authenticateToken and requireAdmin, then deactivateUser: is_active = false
DeactivateUser(actor, u) ==
  /\ actor \in ActiveUsers /\ Role(actor) = "admin"
  /\ u \in LiveUsers
  /\ inactive' = inactive \cup {u}
  /\ UNCHANGED <<products, orders, transactions, now, req, deleted, otp, loginAttempts>>

\* authenticateToken and requireAdmin, then activateUser: is_active = true
ActivateUser(actor, u) ==
  /\ actor \in ActiveUsers /\ Role(actor) = "admin"
  /\ u \in LiveUsers
  /\ inactive' = inactive \ {u}
  /\ UNCHANGED <<products, orders, transactions, now, req, deleted, otp, loginAttempts>>

(* ------------------------------ system ---------------------------------- *)
\* steps of the pay requests running in the slots of S
PayHandlers(S) ==
  \/ \E s \in S, actor \in Users, o \in 1..MaxOrders, gw \in PayGateways \cup {"paypal"} :
       PayStart(s, actor, o, gw)
  \/ \E s \in S : PayGetTx(s)
  \/ \E s \in S : PayCreate(s)
  \/ \E s \in S : PayUpdate(s)

\* steps of the webhook deliveries running in the slots of S
HookHandlers(S) ==
  \/ \E s \in S, gw \in Gateways, sig \in {"missing", "bad", "valid"},
        tid \in 0..MaxTx, gid \in GatewayTxIds, amt \in WebhookAmounts :
       \E st \in ProviderStatuses(gw) : WebhookReceive(s, gw, sig, tid, gid, st, amt)
  \/ \E s \in S : MarkPaidTx(s)
  \/ \E s \in S : MarkPaidOrder(s)
  \/ \E s \in S : MarkFailedTx(s)
  \/ \E s \in S : MarkFailedOrder(s)

AdminHandlers(S) ==
  \/ \E s \in S, actor \in Users, tid \in 1..MaxTx,
        ps \in PaymentStatuses \cup {"refunded"}, gid \in GatewayTxIds \cup {NULL} :
       AdminPatchStatus(s, actor, tid, ps, gid)
  \/ \E s \in S : AdminSetPending(s)

\* the first order of the system
PlaceOrder(actor, p, q) ==
  /\ orders = << >>
  /\ CreateOrder(actor, p, q)

\* payment and reconciliation of one order, one request in flight at a time
\* (its awaits still interleave with the order operations and the clock)
Next ==
  \/ Tick
  \/ Ack("s1")
  \/ PayHandlers({"s1"})
  \/ HookHandlers({"s1"})
  \/ AdminHandlers({"s1"})
  \/ \E actor \in Users, p \in Products, q \in 1..MaxQty : PlaceOrder(actor, p, q)
  \/ \E actor \in Users, o \in 1..MaxOrders, st \in OrderStatuses : UpdateOrderStatus(actor, o, st)

Spec == Init /\ [][Next]_vars

\* one order, its pay requests and the webhooks of its transaction, one
\* request in flight at a time
NextHook ==
  \/ Ack("s1")
  \/ PayHandlers({"s1"})
  \/ HookHandlers({"s1"})
  \/ \E actor \in Users, p \in Products, q \in 1..MaxQty : PlaceOrder(actor, p, q)

SpecHook == Init /\ [][NextHook]_vars

\* two pay requests in flight for one order
NextPayRace ==
  \/ \E s \in Slots : Ack(s)
  \/ PayHandlers(Slots)
  \/ \E actor \in Users, p \in Products, q \in 1..MaxQty : PlaceOrder(actor, p, q)

SpecPayRace == Init /\ [][NextPayRace]_vars

\* two webhook deliveries in flight for the transaction of one order
NextHookRace ==
  \/ \E s \in Slots : Ack(s)
  \/ PayHandlers({"s1"})
  \/ HookHandlers(Slots)
  \/ \E actor \in Users, p \in Products, q \in 1..MaxQty : PlaceOrder(actor, p, q)

SpecHookRace == Init /\ [][NextHookRace]_vars

\* orders and the farmer's product edits, without payments
NextStock ==
  \/ \E actor \in Users, p \in Products, q \in 1..MaxQty : CreateOrder(actor, p, q)
  \/ \E actor \in Users, o \in 1..MaxOrders, st \in OrderStatuses : UpdateOrderStatus(actor, o, st)
  \/ \E actor \in Users, p \in Products, q \in 0..MaxQty, price \in Prices, st \in ProductStatuses :
       UpdateProduct(actor, p, q, price, st)
  \/ \E actor \in Users, p \in Products, q \in StockInputs : UpdateStock(actor, p, q)

SpecStock == Init /\ [][NextStock]_vars

\* orders, their quantity updates, the status updates that end the pending
\* state, and the farmer's price changes
NextQuantity ==
  \/ \E actor \in Users, p \in Products, q \in 1..MaxQty : CreateOrder(actor, p, q)
  \/ \E actor \in Users, o \in 1..MaxOrders, nq \in 0..MaxQty + 1 : UpdateOrderQuantity(actor, o, nq)
  \/ \E actor \in Users, o \in 1..MaxOrders, st \in {"confirmed", "cancelled"} :
       UpdateOrderStatus(actor, o, st)
  \/ \E actor \in Users, p \in Products, price \in Prices :
       UpdateProduct(actor, p, products[p].quantity, price, products[p].status)

SpecQuantity == Init /\ [][NextQuantity]_vars

\* orders and their status updates by every user
NextStatus ==
  \/ \E actor \in Users, p \in Products, q \in 1..MaxQty : CreateOrder(actor, p, q)
  \/ \E actor \in Users, o \in 1..MaxOrders, st \in OrderStatuses : UpdateOrderStatus(actor, o, st)

SpecStatus == Init /\ [][NextStatus]_vars

\* one order, its pay requests and the admin's deletions of users
NextUsers ==
  \/ Ack("s1")
  \/ PayHandlers({"s1"})
  \/ \E actor \in Users, p \in Products, q \in 1..MaxQty : PlaceOrder(actor, p, q)
  \/ \E actor \in Users, u \in Users : DeleteUser(actor, u)

SpecUsers == Init /\ [][NextUsers]_vars

\* OTP verifications in both slots, with re-issued OTPs and the clock
NextOtp ==
  \/ Tick
  \/ StoreOTP
  \/ \E s \in Slots : Ack(s)
  \/ \E s \in Slots, code \in {"right", "wrong"} : VerifyStart(s, code)
  \/ \E s \in Slots : OtpIncrement(s)
  \/ \E s \in Slots : OtpMarkUsed(s)

SpecOtp == Init /\ [][NextOtp]_vars

\* steps of the createOrder requests running in the slots of S
OrderHandlers(S) ==
  \/ \E s \in S, actor \in Users, p \in Products, q \in 0..MaxQty : OrderStart(s, actor, p, q)
  \/ \E s \in S : OrderReserve(s)
  \/ \E s \in S : OrderInsert(s)

\* no request is in flight
Quiet == \A s \in Slots : req[s].pc = "idle"

\* the farmer edits quantity and status while no request is in flight
ProductEditBetween(actor, p, q, st) ==
  Quiet /\ UpdateProduct(actor, p, q, products[p].price, st)

\* createOrder requests one at a time; the farmer's product edits happen
\* between them
NextOrder ==
  \/ Ack("s1")
  \/ OrderHandlers({"s1"})
  \/ \E actor \in Users, p \in Products, q \in 0..MaxQty, st \in ProductStatuses :
       ProductEditBetween(actor, p, q, st)

SpecOrder == Init /\ [][NextOrder]_vars

\* two createOrder requests in flight for the same product
NextOrderRace ==
  \/ \E s \in Slots : Ack(s)
  \/ OrderHandlers(Slots)

SpecOrderRace == Init /\ [][NextOrderRace]_vars

\* admin logins from one client IP, up to two in flight at once
NextLogin ==
  \/ LoginTick
  \/ \E s \in Slots :
       \/ Ack(s)
       \/ \E cred \in LoginCredentials : LoginStart(s, cred)
       \/ LoginLookup(s)
       \/ LoginCompare(s)

SpecLogin == Init /\ [][NextLogin]_vars

\* accounts are deactivated and activated while their owners place and pay orders
NextAccess ==
  \/ Ack("s1")
  \/ PayHandlers({"s1"})
  \/ \E actor \in Users, p \in Products, q \in 1..MaxQty : PlaceOrder(actor, p, q)
  \/ \E actor \in Users, u \in Users : DeactivateUser(actor, u)
  \/ \E actor \in Users, u \in Users : ActivateUser(actor, u)

SpecAccess == Init /\ [][NextAccess]_vars

\* the retailer changes the quantity of the pending order between two requests
QuantityEditBetween(actor, o, nq) ==
  /\ Quiet
  /\ UpdateOrderQuantity(actor, o, nq)

\* one order, its pay requests and the updates of its quantity between them
NextRepay ==
  \/ Ack("s1")
  \/ PayHandlers({"s1"})
  \/ \E actor \in Users, p \in Products, q \in 1..MaxQty : PlaceOrder(actor, p, q)
  \/ \E actor \in Users, o \in 1..MaxOrders, nq \in 0..MaxQty + 1 :
       QuantityEditBetween(actor, o, nq)

SpecRepay == Init /\ [][NextRepay]_vars

(* ============================ properties ================================ *)
AllowedOrderEdges ==
  {<<"pending", "confirmed">>, <<"confirmed", "delivered">>, <<"delivered", "completed">>,
   <<"pending", "cancelled">>, <<"confirmed", "cancelled">>}

\* C1: every change of a transaction's payment_status is pending->paid or
\* pending->failed; a paid or failed transaction never changes payment_status
C1_PaymentStatusOnlyLeavesPending ==
  [][\A t \in DOMAIN transactions :
       transactions'[t].payment_status # transactions[t].payment_status
         => /\ transactions[t].payment_status = "pending"
            /\ transactions'[t].payment_status \in {"paid", "failed"}]_vars

\* C2: a verified success or failure webhook that found its transaction paid
\* or failed changes neither the transaction's payment_status,
\* gateway_transaction_id and paid_at nor the order's status and confirmed_at,
\* and is answered with a success
C2_SettledWebhookChangesNothing ==
  [][\A s \in Slots :
       (/\ req[s].op = "webhook"
        /\ req[s].pc \in {"mp_tx", "mp_order", "mf_tx", "mf_order"}
        /\ req[s].seen \in {"paid", "failed"}
        /\ req'[s] # req[s])
       => LET t == req[s].tx
              o == transactions[t].order_id IN
          /\ transactions'[t].payment_status = transactions[t].payment_status
          /\ transactions'[t].gateway_transaction_id = transactions[t].gateway_transaction_id
          /\ transactions'[t].paid_at = transactions[t].paid_at
          /\ orders'[o].status = orders[o].status
          /\ orders'[o].confirmed_at = orders[o].confirmed_at
          /\ req'[s].pc = "done" => req'[s].resp = 200]_vars

\* the store after the webhook handler has run to completion on a verified
\* payload, without another request in between
WebhookEffect(txs, ords, ev, tid, gid, tm) ==
  IF tid \notin DOMAIN txs THEN [tx |-> txs, ord |-> ords]
  ELSE IF ev = "success"
       THEN [tx |-> TxMarkPaid(txs, tid, gid, tm),
             ord |-> OrdConfirm(ords, txs[tid].order_id, tm)]
  ELSE IF ev = "failed"
       THEN [tx |-> TxMarkFailed(txs, tid), ord |-> OrdCancel(ords, txs[tid].order_id)]
  ELSE [tx |-> txs, ord |-> ords]

\* the canonical events of all payloads that the providers may send
VerifiedEvents ==
  UNION {{ParseEvent(gw, st) : st \in ProviderStatuses(gw)} : gw \in Gateways}

\* payment_status and gateway_transaction_id of every transaction, status of every order
ReconciledState(txs, ords) ==
  [tx |-> [t \in DOMAIN txs |-> <<txs[t].payment_status, txs[t].gateway_transaction_id>>],
   ord |-> [o \in DOMAIN ords |-> ords[o].status]]

\* C3: in every reachable state, for every verified payload (its canonical
\* event, transaction id and gateway transaction id), handling the payload
\* twice in succession (the second delivery no earlier than the first) leaves the same payment_status,
\* gateway_transaction_id and order status as handling it once
C3_WebhookIdempotent ==
  \A ev \in VerifiedEvents, tid \in 0..MaxTx, gid \in GatewayTxIds, t2 \in now..MaxTime :
      LET once == WebhookEffect(transactions, orders, ev, tid, gid, now)
          twice == WebhookEffect(once.tx, once.ord, ev, tid, gid, t2) IN
      ReconciledState(twice.tx, twice.ord) = ReconciledState(once.tx, once.ord)

\* a success webhook has just been handled for a pending transaction and has
\* changed it, and delivering the same payload again would find it paid
C3_Witness ==
  \E s \in Slots :
    /\ req[s].pc = "done" /\ req[s].op = "webhook" /\ req[s].ev = "success"
    /\ req[s].resp = 200 /\ req[s].seen = "pending"
    /\ "payment_status" \in req[s].chg /\ "order_status" \in req[s].chg
    /\ transactions[req[s].tx].payment_status = "paid"
    /\ orders[transactions[req[s].tx].order_id].status = "confirmed"

\* C4: of two webhook deliveries that both read the same transaction as
\* pending and were processed concurrently, exactly one changes the
\* payment_status and the other changes nothing (so at most one order
\* status transition results)
C4_ConcurrentWebhooksOneTransition ==
  \A a, b \in Slots :
    (/\ a # b
     /\ req[a].pc = "done" /\ req[b].pc = "done"
     /\ req[a].op = "webhook" /\ req[b].op = "webhook"
     /\ req[a].ev \in {"success", "failed"} /\ req[b].ev \in {"success", "failed"}
     /\ req[a].tx = req[b].tx
     /\ req[a].seen = "pending" /\ req[b].seen = "pending"
     /\ req[a].resp = 200 /\ req[b].resp = 200)
    => \/ "payment_status" \in req[a].chg /\ req[b].chg = {}
       \/ "payment_status" \in req[b].chg /\ req[a].chg = {}

\* C5: each order has at most one transaction row, and a pay request that
\* has obtained its transaction holds the only row of its order
C5_OneTransactionPerOrder ==
  /\ \A o \in DOMAIN orders : Cardinality(TxOfOrder(transactions, o)) <= 1
  /\ \A s \in Slots : req[s].pc = "pay_update" => TxOfOrder(transactions, req[s].order) = {req[s].tx}

\* C6: every change of an order's status is one of the edges of the order
\* state machine
C6_OrderStatusFollowsEdges ==
  [][\A o \in DOMAIN orders :
       orders'[o].status # orders[o].status
         => <<orders[o].status, orders'[o].status>> \in AllowedOrderEdges]_vars

\* C7: when the order update of a success webhook for a pending transaction
\* finds the order not pending, the order keeps its status, the transaction
\* is paid and the provider gets a success response
C7_PaidOnNonPendingOrderKeepsOrder ==
  [][\A s \in Slots :
       (/\ req[s].op = "webhook" /\ req[s].pc = "mp_order" /\ req[s].seen = "pending"
        /\ req'[s].pc = "done"
        /\ orders[transactions[req[s].tx].order_id].status # "pending")
       => LET t == req[s].tx
              o == transactions[t].order_id IN
          /\ orders'[o].status = orders[o].status
          /\ transactions'[t].payment_status = "paid"
          /\ req'[s].resp = 200]_vars

\* C8: the order update of a payment failure changes the order's status
\* only when the order is pending
C8_FailureCancelsOnlyPendingOrder ==
  [][\A s \in Slots :
       (/\ req[s].pc = "mf_order" /\ req'[s].pc = "done"
        /\ orders[transactions[req[s].tx].order_id].status # "pending")
       => LET o == transactions[req[s].tx].order_id IN
          orders'[o].status = orders[o].status]_vars

\* C9: whenever an order becomes cancelled, the quantity of its item is
\* added back to the product and the product becomes available
C9_CancellationRestoresStock ==
  [][\A o \in DOMAIN orders :
       (orders[o].status # "cancelled" /\ orders'[o].status = "cancelled")
         => LET p == orders[o].product_id IN
            /\ products'[p].quantity = products[p].quantity + orders[o].quantity
            /\ products'[p].status = "available"]_vars

\* C10: the quantity of every product is never negative
C10_QuantityNonNegative ==
  \A p \in Products : products[p].quantity >= 0

(* ------------------------- order creation -------------------------------- *)
RECURSIVE SumQty(_)
\* total quantity of the items of a sequence of orders
SumQty(ords) == IF ords = << >> THEN 0 ELSE Head(ords).quantity + SumQty(Tail(ords))

\* C11: with createOrder requests running concurrently on one product, the
\* quantity never goes below zero and the quantity reserved by the orders
\* that were created never exceeds the product's quantity before them
C11_NoOversell ==
  /\ \A p \in Products : products[p].quantity >= 0
  /\ SumQty(orders) <= MaxQty

\* both requests were in flight together and both created their order
C11_Witness ==
  /\ \A s \in Slots : req[s].pc = "done" /\ req[s].op = "order" /\ req[s].resp = 201
  /\ req["s1"].norders = 0 /\ req["s2"].norders = 0
  /\ Len(orders) = 2 /\ SumQty(orders) = MaxQty

\* C12: a createOrder that ran alone succeeded only if the product was
\* available with at least q units; it then left the quantity reduced by
\* exactly q, the status ordered exactly when the quantity is 0 (available
\* otherwise) and one new pending order of q units; a failed createOrder
\* left the product as it was and no order behind
C12_CreateOrderEffect ==
  \A s \in Slots :
    (req[s].pc = "done" /\ req[s].op = "order") =>
      LET p == req[s].product
          q == req[s].qty IN
      IF req[s].resp = 201
      THEN /\ req[s].prest = "available" /\ q <= req[s].preq
           /\ products[p].quantity = req[s].preq - q
           /\ products[p].status = IF products[p].quantity = 0 THEN "ordered" ELSE "available"
           /\ Len(orders) = req[s].norders + 1
           /\ orders[Len(orders)].quantity = q /\ orders[Len(orders)].product_id = p
           /\ orders[Len(orders)].status = "pending"
      ELSE /\ products[p].quantity = req[s].preq
           /\ products[p].status = req[s].prest
           /\ Len(orders) = req[s].norders

\* an order for the whole stock was created, and a later request failed
C12_Witness ==
  /\ Len(orders) = 1 /\ orders[1].quantity = MaxQty
  /\ products["p1"].quantity = 0 /\ products["p1"].status = "ordered"
  /\ req["s1"].pc = "done" /\ req["s1"].op = "order" /\ req["s1"].resp = 400
  /\ req["s1"].actor = "r1" /\ req["s1"].qty = 1

\* C13: when a success webhook has marked a transaction paid and completes
\* its order update, the order is confirmed with confirmed_at set, the
\* product's quantity is unchanged and the product's status is sold exactly
\* when that quantity is 0
C13_PaidConfirmsOrderAndStock ==
  [][\A s \in Slots :
       (req[s].op = "webhook" /\ req[s].pc = "mp_order" /\ req'[s].pc = "done")
       => LET o == transactions[req[s].tx].order_id
              p == orders[o].product_id IN
          /\ orders'[o].status = "confirmed"
          /\ orders'[o].confirmed_at # NoTime
          /\ products'[p].quantity = products[p].quantity
          /\ (products'[p].status = "sold") <=> (products[p].quantity = 0)]_vars

C16_BadSignatureRejected ==
  [][\A s \in Slots :
       (req[s].pc = "idle" /\ req'[s].op = "webhook") =>
         \A gw \in Gateways, tid \in 0..MaxTx, gid \in GatewayTxIds, amt \in WebhookAmounts :
           \A st \in ProviderStatuses(gw) :
             WebhookReceive(s, gw, "bad", tid, gid, st, amt) =>
               /\ req'[s].pc = "done" /\ req'[s].resp = 401
               /\ transactions' = transactions /\ orders' = orders /\ products' = products]_vars

\* a webhook was rejected with 401 while a pending transaction existed
C16_Witness ==
  \E s \in Slots :
    /\ req[s].pc = "done" /\ req[s].op = "webhook" /\ req[s].resp = 401
    /\ \E t \in DOMAIN transactions :
         transactions[t].payment_status = "pending" /\ orders[transactions[t].order_id].status = "pending"

\* C17: a verified webhook whose transaction id matches no transaction is
\* answered with 404 and has changed nothing
C17_UnknownTransactionIs404 ==
  \A s \in Slots :
    (/\ req[s].pc = "done" /\ req[s].op = "webhook"
     /\ req[s].tx # 0 /\ req[s].tx \notin DOMAIN transactions)
    => req[s].resp = 404 /\ req[s].chg = {}

C19_ReferencedUserNotDeleted ==
  [][/\ \A u \in LiveUsers :
          ((\E p \in LiveProducts : products[p].farmer_id = u)
            \/ (\E o \in LiveOrders : orders[o].retailer_id = u))
          => u \notin deleted'.users
     /\ deleted'.products = deleted.products /\ deleted'.orders = deleted.orders
     /\ deleted'.items = deleted.items /\ deleted'.transactions = deleted.transactions]_vars

\* C20: no stored OTP has its code compared with more than 3 wrong codes,
\* also with verifications running concurrently, and no verification
\* succeeds on an OTP whose attempts counter had reached 3
C20_AtMostThreeWrongCodes ==
  /\ otp.tried <= OtpMaxAttempts
  /\ \A s \in Slots :
       (req[s].pc = "done" /\ req[s].op = "verify" /\ req[s].resp = 200)
         => req[s].att < OtpMaxAttempts

\* C21: a stored OTP is verified successfully at most once: a verification
\* that is about to succeed works on a record that is still unused, and two
\* verifications of the same record never both succeed
C21_OtpVerifiedAtMostOnce ==
  /\ \A s \in Slots :
       (req[s].pc = "otp_use" /\ req[s].otpid = otp.id) => ~otp.is_used
  /\ \A a, b \in Slots :
       (/\ a # b
        /\ req[a].pc = "done" /\ req[a].op = "verify" /\ req[a].resp = 200
        /\ req[b].pc = "done" /\ req[b].op = "verify" /\ req[b].resp = 200)
       => req[a].otpid # req[b].otpid

\* C22: once five failed admin logins are recorded for the client IP, the
\* lockout stays in force, so that every further login is answered 429, until more
\* than the lockout duration has passed since the last failed attempt: no step
\* taken inside that period leaves the IP free to log in
C22_LockoutLastsFifteenMinutes ==
  [][(/\ loginAttempts.count >= MaxAttempts
      /\ now' - loginAttempts.lastAttempt <= LockoutDuration)
     => RateLimited(loginAttempts', now')]_vars

\* C30: the failed-attempt count kept for the client IP never exceeds maxAttempts
C30_FailedCountAtMostFive == loginAttempts.count <= MaxAttempts

\* C23: while a user is deactivated, every request made with their token is
\* rejected by authentication: a pay request is answered 401 and changes
\* nothing, and no order or account operation is carried out for them
C23_DeactivatedUserRejected ==
  [][/\ \A s \in Slots, actor \in inactive, o \in 1..MaxOrders,
           gw \in PayGateways \cup {"paypal"} :
          PayStart(s, actor, o, gw) => req'[s].pc = "done" /\ req'[s].resp = 401
     /\ \A actor \in inactive, p \in Products, q \in 1..MaxQty :
          ~CreateOrder(actor, p, q)
     /\ \A actor \in inactive, u \in Users :
          ~DeactivateUser(actor, u) /\ ~ActivateUser(actor, u)]_vars

\* the retailer has been deactivated after ordering, and a pay request was
\* answered 401 although the order is pending and no user was deleted
C23_Witness ==
  /\ "r1" \in inactive /\ "a1" \in inactive
  /\ Len(orders) = 1 /\ orders[1].status = "pending"
  /\ req["s1"].pc = "done" /\ req["s1"].op = "pay" /\ req["s1"].resp = 401

\* C24: a pay request creates or modifies a transaction only when the requester
\* is the order's retailer or an admin, the order is pending and the order has
\* no paid transaction; a request of anybody else, or for an order that is not
\* pending, ends at once with an error and writes nothing
C24_PayWritesOnlyWhenAllowed ==
  [][/\ \A s \in Slots, actor \in Users, o \in 1..MaxOrders, gw \in PayGateways :
          (/\ PayStart(s, actor, o, gw)
           /\ ~(/\ o \in LiveOrders
                /\ Role(actor) = "admin" \/ orders[o].retailer_id = actor
                /\ orders[o].status = "pending"))
          => req'[s].pc = "done" /\ req'[s].resp \in {400, 401, 403, 500}
     /\ \A s \in Slots :
          (/\ req[s].op = "pay" /\ req'[s] # req[s]
           /\ transactions' # transactions)
          => /\ orders[req[s].order].status = "pending"
             /\ \A t \in TxOfOrder(transactions, req[s].order) :
                  transactions[t].payment_status # "paid"]_vars

\* C26: the gateway_transaction_id, paid_at and payment_gateway of a paid
\* transaction are never overwritten
C26_PaidTransactionKeepsGatewayData ==
  [][\A t \in DOMAIN transactions :
       transactions[t].payment_status = "paid"
       => /\ transactions'[t].gateway_transaction_id = transactions[t].gateway_transaction_id
          /\ transactions'[t].paid_at = transactions[t].paid_at
          /\ transactions'[t].payment_gateway = transactions[t].payment_gateway]_vars

\* C27: a validly signed webhook of one provider does not go on to mark paid or
\* failed a transaction whose payment_gateway is another provider (the steps
\* mp_tx and mf_tx are the calls of markTransactionAsPaid and
\* markTransactionAsFailed, whose first statement writes the transaction)
C27_WebhookOfOwnGatewayOnly ==
  [][\A s \in Slots :
       (req[s].pc = "idle" /\ req'[s].op = "webhook") =>
         \A gw \in Gateways, tid \in 1..MaxTx, gid \in GatewayTxIds, amt \in WebhookAmounts :
           \A st \in ProviderStatuses(gw) :
             (/\ WebhookReceive(s, gw, "valid", tid, gid, st, amt)
              /\ tid \in DOMAIN transactions
              /\ transactions[tid].payment_gateway # gw)
             => req'[s].pc \notin {"mp_tx", "mf_tx"}]_vars

\* C28: a success webhook goes on to mark the transaction paid only if the
\* amount of its canonical event equals the transaction's amount
C28_PaidOnlyForMatchingAmount ==
  [][\A s \in Slots :
       (req[s].pc = "idle" /\ req'[s].op = "webhook") =>
         \A gw \in Gateways, tid \in 1..MaxTx, gid \in GatewayTxIds, amt \in WebhookAmounts :
           \A st \in ProviderStatuses(gw) :
             (/\ WebhookReceive(s, gw, "valid", tid, gid, st, amt)
              /\ tid \in DOMAIN transactions
              /\ amt # transactions[tid].amount)
             => req'[s].pc # "mp_tx"]_vars

\* C25: the stock is conserved: the product's quantity plus the quantities of
\* its order items in orders that are not cancelled is the product's initial
\* quantity
C25_StockConserved ==
  \A p \in Products :
    products[p].quantity
      + SumQty(SelectSeq(orders, LAMBDA ord : ord.product_id = p /\ ord.status # "cancelled"))
    = MaxQty

\* C29: the amount that a pay request sends to the payment gateway is the
\* order's current total_amount
C29_GatewayAmountIsOrderTotal ==
  \A s \in Slots :
    (req[s].op = "pay" /\ req[s].pc = "pay_update")
    => req[s].amount = orders[req[s].order].total_amount

====
